---- MODULE Spec2Model ----
(***************************************************************************)
(* A model of src/acquisition/covidcast/database.py: the covidcast         *)
(* Database class over its relational store.                               *)
(*                                                                         *)
(* One Database object owns one connection.  `db` is what the statements   *)
(* of that connection read and write (the open transaction's view of the   *)
(* tables), `committed` is what the store holds durably.  The tables are   *)
(* signal_load (the staging area), signal_dim and geo_dim (the dimension   *)
(* registry), signal_history and signal_latest.  Every method is one       *)
(* action; a statement of a method may fail (the cursor raises), which the *)
(* action takes as an input naming the failing statement.                  *)
(*                                                                         *)
(* SQL leaves two things open, and the model keeps them open: the order in *)
(* which INSERT ... SELECT visits its rows (no ORDER BY), and the row that *)
(* supplies the non-aggregated columns of a GROUP BY.  A method therefore  *)
(* has a set of possible outcomes and the action picks any of them.        *)
(***************************************************************************)
EXTENDS Integers, Sequences, FiniteSets, TLC

\* ---------------------------------------------------------------- bounds
MaxIssue == 3      \* issues are 1..MaxIssue
NumSignals == 2    \* signals are 1..NumSignals (one source)
NumGeos == 1       \* geo values are 1..NumGeos (one geo_type)
MaxValue == 0      \* values are 0..MaxValue
MaxRows == 3       \* longest cc_rows given to insert_or_update_batch
MaxDeletions == 2  \* longest cc_deletions given to delete_batch
MaxId == 3         \* the load table's AUTO_INCREMENT counter stops here
MaxDimId == 2      \* the dimension tables' AUTO_INCREMENT counters stop here
FaultMaxRows == 2       \* longest cc_rows of a call that may fail
FaultMaxDeletions == 1  \* longest cc_deletions of a call that may fail
MaxThreads == 2         \* largest n_threads of compute_covidcast_meta
NumLoaders == 2         \* concurrent insert_or_update_batch calls
MaxCacheRows == 2       \* rows of covidcast_meta_cache
MaxEntries == 2         \* entries of a metadata list written to the cache
MaxClock == 2           \* seconds the server clock advances
MetaMaxRows == 2        \* rows of the load that fills the store the metadata is computed on

VARIABLES db, committed, ai, tmp_exists, last

\* compute_covidcast_meta: the work queue, the shared result list and its
\* lock, the worker threads, the calling thread, and the log of the pairs the
\* workers took from the queue.
VARIABLES srcsigs, meta, meta_lock, threads, coord, taken

metaVars == <<srcsigs, meta, meta_lock, threads, coord, taken>>

\* The server's UNIX_TIMESTAMP(NOW()), and the last call of a metadata cache
\* method: the metadata last written and what retrieval returned.
VARIABLES clock, cache_call

cacheVars == <<clock, cache_call>>

\* Concurrent insert_or_update_batch calls, each on its own connection to the
\* one store: the storage engine and where each call stands.
VARIABLE race

vars == <<db, committed, ai, tmp_exists, last, metaVars, cacheVars, race>>

\* ------------------------------------------------------------- utilities
Max(S) == CHOOSE x \in S : \A y \in S : y <= x

Min(S) == CHOOSE x \in S : \A y \in S : x <= y

Range(s) == {s[i] : i \in 1..Len(s)}

\* Python's None is the empty set, a number n is {n}.
None == {}

Some(n) == {n}

\* Python's lst[start:end] with 0-based bounds.
Slice(lst, start, end) == [i \in 1..(end - start) |-> lst[start + i]]

\* A faulty variant of Ceil: the quotient rounded down.
Floor(a, b) == a \div b

\* math.ceil(a / b) for a >= 0, b >= 1.
Ceil(a, b) == (a + b - 1) \div b

Min2(a, b) == IF a <= b THEN a ELSE b

\* ------------------------------------------------------------------ keys
Issues == 1..MaxIssue

Values == 0..MaxValue

\* The natural key of an observation.
NaturalKeys ==
  [source : {"src"}, signal : 1..NumSignals, time_type : {"day"},
   geo_type : {"county"}, geo_value : 1..NumGeos, time_value : {20200101}]

\* short_comp_key of delete_batch.
ShortCompKey(r) ==
  [source |-> r.source, signal |-> r.signal, time_type |-> r.time_type,
   geo_type |-> r.geo_type, geo_value |-> r.geo_value, time_value |-> r.time_value]

\* long_comp_key of delete_batch: short_comp_key and the issue.
LongCompKey(r) == <<ShortCompKey(r), r.issue>>

\* A CovidcastRow: what the caller hands to insert_or_update_batch.
CovidcastRow(k, issue, value) ==
  [source |-> k.source, signal |-> k.signal, time_type |-> k.time_type,
   geo_type |-> k.geo_type, geo_value |-> k.geo_value, time_value |-> k.time_value,
   issue |-> issue, value |-> value]

CovidcastRows == {CovidcastRow(k, i, v) : k \in NaturalKeys, i \in Issues, v \in Values}

\* A deletion tuple: the full key of the version to delete.
Deletion(k, issue) ==
  [source |-> k.source, signal |-> k.signal, time_type |-> k.time_type,
   geo_type |-> k.geo_type, geo_value |-> k.geo_value, time_value |-> k.time_value,
   issue |-> issue]

Deletions == {Deletion(k, i) : k \in NaturalKeys, i \in Issues}

SeqsUpTo(S, n) == UNION {[1..m -> S] : m \in 0..n}

\* The bulk load input: an ordered sequence of drafts, one per full key.
CcRowsInputs ==
  {s \in SeqsUpTo(CovidcastRows, MaxRows) :
     \A i, j \in 1..Len(s) : LongCompKey(s[i]) = LongCompKey(s[j]) => i = j}

\* The bulk deletion input: a list of tuples, repetitions allowed.
CcDeletionsInputs == SeqsUpTo(Deletions, MaxDeletions)

\* ---------------------------------------------------------------- tables
\* covidcast_meta_cache as the schema leaves it: one row, of timestamp 0, whose
\* epidata is the text of an empty list.
MetaCacheSeed == <<[timestamp |-> 0, epidata |-> <<>>]>>

EmptyDb ==
  [load |-> {}, signal_dim |-> {}, geo_dim |-> {}, history |-> {}, latest |-> {},
   meta_cache |-> MetaCacheSeed]

\* signal_history_v / signal_latest_v: the table joined to both dimensions,
\* which gives each row its source, signal, geo_type and geo_value.
View(table, d) ==
  {[signal_data_id |-> r.signal_data_id, source |-> sd.source, signal |-> sd.signal,
    time_type |-> r.time_type, geo_type |-> gd.geo_type, geo_value |-> gd.geo_value,
    time_value |-> r.time_value, issue |-> r.issue, value |-> r.value,
    signal_key_id |-> r.signal_key_id, geo_key_id |-> r.geo_key_id] :
     <<r, sd, gd>> \in
       {t \in table \X d.signal_dim \X d.geo_dim :
          t[1].signal_key_id = t[2].signal_key_id /\ t[1].geo_key_id = t[3].geo_key_id}}

history_view(d) == View(d.history, d)

latest_view(d) == View(d.latest, d)

\* The unique key of signal_history: the full key, in surrogate form.
HistoryKey(r) == <<r.signal_key_id, r.geo_key_id, r.time_type, r.time_value, r.issue>>

\* The unique key of signal_latest: the natural key, in surrogate form.
LatestKey(r) == <<r.signal_key_id, r.geo_key_id, r.time_type, r.time_value>>

\* ------------------------------------------------------- session records
\* What a method carries from statement to statement: the tables as the
\* connection sees them, the committed tables, the AUTO_INCREMENT counters,
\* whether tmp_delete_table exists, and the method's locals.
Session(d, c, a, t) ==
  [db |-> d, committed |-> c, ai |-> a, tmp_exists |-> t,
   total |-> Some(0), merges |-> 0, staged |-> <<>>, tmp_rows |-> {},
   raised |-> FALSE, failed_at |-> "none"]

\* The method raises at statement `name`.
Raise(s, name) == [s EXCEPT !.raised = TRUE, !.failed_at = name]

\* One statement of a method: skipped once the method has raised, raising
\* without effect if it is the statement that fails, else any of its outcomes.
Execute(Ss, name, fail_step, Stmt(_)) ==
  UNION {IF s.raised THEN {s}
         ELSE IF fail_step = name THEN {Raise(s, name)}
         ELSE Stmt(s) : s \in Ss}

CommitSessionDropped(s) == {s}

\* self._connection.commit()
CommitSession(s) == {[s EXCEPT !.committed = s.db]}

\* A commit that raises leaves the transaction open or has rolled it back.
ExecuteCommit(Ss, fail_step) ==
  UNION {IF s.raised THEN {s}
         ELSE IF fail_step = "commit"
              THEN {Raise(s, "commit"), Raise([s EXCEPT !.db = s.committed], "commit")}
         ELSE CommitSession(s) : s \in Ss}

\* cursor.rowcount as mysql.connector reports it: the rows affected.
Rowcount(n) == n

\* --------------------------------------------------- insert_or_update_batch
\* A faulty variant of count_all_load_rows: count_all_rows() without a table
\* name counts signal_history.
count_all_rows_default(d) == Cardinality(d.history)

\* count_all_load_rows
count_all_load_rows(d) == Cardinality(d.load)

\* A row of signal_load as insert_into_loader_sql writes it.
LoadRow(id, row) ==
  [signal_data_id |-> id, source |-> row.source, signal |-> row.signal,
   time_type |-> row.time_type, geo_type |-> row.geo_type,
   geo_value |-> row.geo_value, time_value |-> row.time_value,
   issue |-> row.issue, value |-> row.value, is_latest_issue |-> 1]

\* executemany(insert_into_loader_sql, args): the rows get consecutive ids.
InsertIntoLoader(s, args) ==
  {[s EXCEPT
      !.db.load = @ \cup {LoadRow(s.ai.load + i - 1, args[i]) : i \in 1..Len(args)},
      !.ai.load = @ + Len(args),
      !.staged = Append(@, args)]}

\* fix_is_latest_issue_sql: a staged row older than the Latest row of its
\* natural key loses its flag.
FixIsLatestIssue(s) ==
  {[s EXCEPT !.db.load =
      {IF \E ell \in latest_view(s.db) :
            ShortCompKey(ell) = ShortCompKey(r) /\ r.issue < ell.issue
       THEN [r EXCEPT !.is_latest_issue = 0]
       ELSE r : r \in @}]}

\* The orders in which a SELECT DISTINCT without ORDER BY can return `new`.
ScanOrders(new) ==
  {f \in [1..Cardinality(new) -> new] : \A i, j \in DOMAIN f : f[i] = f[j] => i = j}

\* INSERT INTO a dimension table of the pairs in `new`, in any order, each
\* taking the table's next AUTO_INCREMENT value: the tables and counters that
\* can result.
AppendNew(dim, new, next, Entry(_, _)) ==
  {<<dim \cup {Entry(f[i], next + i - 1) : i \in DOMAIN f}, next + Cardinality(new)>> :
     f \in ScanOrders(new)}

SignalDimEntry(p, id) == [source |-> p[1], signal |-> p[2], signal_key_id |-> id]

GeoDimEntry(p, id) == [geo_type |-> p[1], geo_value |-> p[2], geo_key_id |-> id]

\* A faulty variant of SignalDimAddNewLoad: without the LEFT JOIN ... IS NULL
\* filter every pair in signal_load is inserted again.
SignalDimAddAllLoad(s) ==
  LET new == {<<r.source, r.signal>> : r \in s.db.load}
  IN {[s EXCEPT !.db.signal_dim = o[1], !.ai.signal_dim = o[2]] :
        o \in AppendNew(s.db.signal_dim, new, s.ai.signal_dim, SignalDimEntry)}

\* signal_dim_add_new_load: the (source, signal) pairs of signal_load that no
\* signal_dim row matches (LEFT JOIN ... WHERE sd.source IS NULL).
SignalDimAddNewLoad(s) ==
  LET new == {<<r.source, r.signal>> : r \in s.db.load} \
             {<<sd.source, sd.signal>> : sd \in s.db.signal_dim}
  IN {[s EXCEPT !.db.signal_dim = o[1], !.ai.signal_dim = o[2]] :
        o \in AppendNew(s.db.signal_dim, new, s.ai.signal_dim, SignalDimEntry)}

\* A faulty variant of GeoDimAddNewLoad: without the LEFT JOIN ... IS NULL
\* filter every pair in signal_load is inserted again.
GeoDimAddAllLoad(s) ==
  LET new == {<<r.geo_type, r.geo_value>> : r \in s.db.load}
  IN {[s EXCEPT !.db.geo_dim = o[1], !.ai.geo_dim = o[2]] :
        o \in AppendNew(s.db.geo_dim, new, s.ai.geo_dim, GeoDimEntry)}

\* geo_dim_add_new_load
GeoDimAddNewLoad(s) ==
  LET new == {<<r.geo_type, r.geo_value>> : r \in s.db.load} \
             {<<gd.geo_type, gd.geo_value>> : gd \in s.db.geo_dim}
  IN {[s EXCEPT !.db.geo_dim = o[1], !.ai.geo_dim = o[2]] :
        o \in AppendNew(s.db.geo_dim, new, s.ai.geo_dim, GeoDimEntry)}

\* FROM signal_load sl INNER JOIN signal_dim sd USING (source, signal)
\*                     INNER JOIN geo_dim gd USING (geo_type, geo_value)
\* in the columns signal_history and signal_latest take.
LoadJoinDims(d, rows) ==
  {[signal_data_id |-> t[1].signal_data_id, signal_key_id |-> t[2].signal_key_id,
    geo_key_id |-> t[3].geo_key_id, time_type |-> t[1].time_type,
    time_value |-> t[1].time_value, issue |-> t[1].issue, value |-> t[1].value] :
     t \in {u \in rows \X d.signal_dim \X d.geo_dim :
              /\ u[1].source = u[2].source /\ u[1].signal = u[2].signal
              /\ u[1].geo_type = u[3].geo_type /\ u[1].geo_value = u[3].geo_value}}

\* The rows an INSERT ... ON DUPLICATE KEY UPDATE can leave for the keys of
\* `rows`: per unique key, the row visited last, which is any of them.
Winners(rows, Key(_)) ==
  {W \in SUBSET rows :
     \A r \in rows : Cardinality({w \in W : Key(w) = Key(r)}) = 1}

\* INSERT INTO table SELECT rows ON DUPLICATE KEY UPDATE <every column the
\* model keeps>: a row of the table with the key of a selected row is
\* overwritten in place, the others stay.
UpsertOutcomes(table, rows, Key(_)) ==
  {{t \in table : \A w \in W : Key(w) # Key(t)} \cup W : W \in Winners(rows, Key)}

\* signal_history_load
SignalHistoryLoad(s) ==
  {[s EXCEPT !.db.history = h] :
     h \in UpsertOutcomes(s.db.history, LoadJoinDims(s.db, s.db.load), HistoryKey)}

\* The rows signal_latest_load selects: WHERE is_latest_issue = 1.
LatestLoadRows(load) == {r \in load : r.is_latest_issue = 1}

\* A faulty variant of SignalLatestLoad: the SELECT reads signal_history
\* where it should read signal_load.
SignalLatestLoadFromHistory(s) ==
  {[s EXCEPT !.db.latest = l] : l \in UpsertOutcomes(s.db.latest, s.db.history, LatestKey)}

\* signal_latest_load
SignalLatestLoad(s) ==
  {[s EXCEPT !.db.latest = l] :
     l \in UpsertOutcomes(s.db.latest,
                          LoadJoinDims(s.db, LatestLoadRows(s.db.load)), LatestKey)}

\* A faulty variant of SignalLoadDeleteProcessed: only the rows that went
\* into signal_latest are deleted.
SignalLoadDeleteFlagged(s) == {[s EXCEPT !.db.load = @ \ LatestLoadRows(@)]}

\* signal_load_delete_processed: DELETE FROM signal_load
SignalLoadDeleteProcessed(s) == {[s EXCEPT !.db.load = {}]}

\* A faulty variant of run_dbjobs: signal_history_load is executed before the
\* dimension tables are filled.
run_dbjobs_history_first(Ss, fail_step) ==
  LET s0 == {IF s.raised THEN s ELSE [s EXCEPT !.merges = @ + 1] : s \in Ss}
      s1 == Execute(s0, "signal_history_load", fail_step, SignalHistoryLoad)
      s2 == Execute(s1, "signal_dim_add_new_load", fail_step, SignalDimAddNewLoad)
      s3 == Execute(s2, "geo_dim_add_new_load", fail_step, GeoDimAddNewLoad)
      s4 == Execute(s3, "signal_latest_load", fail_step, SignalLatestLoad)
  IN Execute(s4, "signal_load_delete_processed", fail_step, SignalLoadDeleteProcessed)

\* run_dbjobs: the five statements in the order the method executes them.
run_dbjobs(Ss, fail_step) ==
  LET s0 == {IF s.raised THEN s ELSE [s EXCEPT !.merges = @ + 1] : s \in Ss}
      s1 == Execute(s0, "signal_dim_add_new_load", fail_step, SignalDimAddNewLoad)
      s2 == Execute(s1, "geo_dim_add_new_load", fail_step, GeoDimAddNewLoad)
      s3 == Execute(s2, "signal_history_load", fail_step, SignalHistoryLoad)
      s4 == Execute(s3, "signal_latest_load", fail_step, SignalLatestLoad)
  IN Execute(s4, "signal_load_delete_processed", fail_step, SignalLoadDeleteProcessed)

\* total += modified_row_count, or None when the connector reports -1.
AddToTotal(s, modified_row_count) ==
  {[s EXCEPT !.total = IF modified_row_count = -1 \/ @ = None THEN None
                       ELSE Some(Max(@) + modified_row_count)]}

Skip(s) == {s}

\* The body of `for batch_num in range(num_batches)`.
RunBatch(Ss, cc_rows, batch_size, batch_num, commit_partial, fail_step) ==
  LET num_rows == Len(cc_rows)
      start == batch_num * batch_size
      end == Min2(num_rows, start + batch_size)
      args == Slice(cc_rows, start, end)
      modified_row_count == Rowcount(Len(args))
      Insert(s) == InsertIntoLoader(s, args)
      Total(s) == AddToTotal(s, modified_row_count)
      s1 == Execute(Ss, "insert_into_loader", fail_step, Insert)
      s2 == Execute(s1, "fix_is_latest_issue", fail_step, FixIsLatestIssue)
      s3 == run_dbjobs(s2, fail_step)
      s4 == Execute(s3, "total", fail_step, Total)
  IN IF commit_partial THEN ExecuteCommit(s4, fail_step) ELSE s4

NoFail == [batch |-> -1, step |-> "none"]

LoadSteps ==
  {"insert_into_loader", "fix_is_latest_issue", "signal_dim_add_new_load",
   "geo_dim_add_new_load", "signal_history_load", "signal_latest_load",
   "signal_load_delete_processed", "commit"}

RECURSIVE Batches(_, _, _, _, _, _, _)
Batches(Ss, cc_rows, batch_size, num_batches, batch_num, commit_partial, fail) ==
  IF batch_num >= num_batches THEN Ss
  ELSE Batches(RunBatch(Ss, cc_rows, batch_size, batch_num, commit_partial,
                        IF fail.batch = batch_num THEN fail.step ELSE "none"),
               cc_rows, batch_size, num_batches, batch_num + 1, commit_partial, fail)

\* insert_or_update_batch(cc_rows, batch_size, commit_partial): the sessions
\* the call can end in.  `raised` tells a raise from a return of s.total.
insert_or_update_batch(s, cc_rows, batch_size, commit_partial, fail) ==
  IF 0 # count_all_load_rows(s.db) THEN {Raise(s, "count_all_load_rows")}
  ELSE LET num_rows == Len(cc_rows)
           bs == IF batch_size = 0 THEN num_rows ELSE batch_size
       IN IF bs = 0 THEN {Raise(s, "num_batches")}   \* ceil(0/0): ZeroDivisionError
          ELSE Batches({s}, cc_rows, bs, Ceil(num_rows, bs), 0, commit_partial, fail)

\* ------------------------------------------------------------ delete_batch
DeleteSteps ==
  {"create_tmp_table", "amend_tmp_table", "load_tmp_table", "add_history_id",
   "mark_for_update_latest", "delete_history", "delete_latest", "update_latest",
   "commit", "drop_tmp_table"}

\* A data-definition statement commits the open transaction before it runs.
ImplicitCommit(s) == [s EXCEPT !.committed = s.db]

\* A failing data-definition statement has or has not committed yet.
FailedDdl(s, name) == {Raise(s, name), Raise(ImplicitCommit(s), name)}

\* create_tmp_table_sql and amend_tmp_table_sql: an empty tmp_delete_table,
\* replacing one a previous call left behind.
CreateTmpTable(s) == {[ImplicitCommit(s) EXCEPT !.tmp_exists = TRUE, !.tmp_rows = {}]}

\* A row of tmp_delete_table as load_tmp_table_insert_sql writes it; n is the
\* row's own AUTO_INCREMENT id, which keeps repeated requests apart.
TmpRow(n, t) ==
  [n |-> n, source |-> t.source, signal |-> t.signal, time_type |-> t.time_type,
   geo_type |-> t.geo_type, geo_value |-> t.geo_value, time_value |-> t.time_value,
   issue |-> t.issue, delete_history_id |-> None, delete_latest_id |-> None,
   update_latest |-> 0]

\* executemany(load_tmp_table_insert_sql, deletions_batch), chunk by chunk.
LoadTmpTable(s, cc_deletions) ==
  {[s EXCEPT !.tmp_rows = {TmpRow(i, cc_deletions[i]) : i \in 1..Len(cc_deletions)}]}

\* add_history_id_sql: INNER JOIN history_view USING (long_comp_key).
AddHistoryId(s) ==
  {[s EXCEPT !.tmp_rows =
      {LET m == {h \in history_view(s.db) : LongCompKey(h) = LongCompKey(d)}
       IN IF m = {} THEN d
          ELSE [d EXCEPT !.delete_history_id = Some((CHOOSE h \in m : TRUE).signal_data_id)] :
       d \in @}]}

\* A faulty variant of MarkForUpdateLatest: the join is on short_comp_key.
MarkForUpdateLatestShortKey(s) ==
  {[s EXCEPT !.tmp_rows =
      {LET m == {ell \in latest_view(s.db) : ShortCompKey(ell) = ShortCompKey(d)}
       IN IF m = {} THEN d
          ELSE [d EXCEPT !.update_latest = 1,
                         !.delete_latest_id = Some((CHOOSE ell \in m : TRUE).signal_data_id)] :
       d \in @}]}

\* mark_for_update_latest_sql: INNER JOIN latest_view USING (long_comp_key).
MarkForUpdateLatest(s) ==
  {[s EXCEPT !.tmp_rows =
      {LET m == {ell \in latest_view(s.db) : LongCompKey(ell) = LongCompKey(d)}
       IN IF m = {} THEN d
          ELSE [d EXCEPT !.update_latest = 1,
                         !.delete_latest_id = Some((CHOOSE ell \in m : TRUE).signal_data_id)] :
       d \in @}]}

\* The rows of signal_history that delete_history_sql removes.
DeletedHistory(s) ==
  {h \in s.db.history : \E d \in s.tmp_rows : d.delete_history_id = Some(h.signal_data_id)}

\* A faulty variant of DeleteHistory: total counts the joined pairs, one per
\* request, not the rows deleted.
DeleteHistoryCountsRequests(s) ==
  {[s EXCEPT !.db.history = @ \ DeletedHistory(s),
             !.total = Some(Rowcount(Cardinality(
                 {d \in s.tmp_rows : d.delete_history_id # None})))]}

\* delete_history_sql, and total = self._cursor.rowcount
DeleteHistory(s) ==
  {[s EXCEPT !.db.history = @ \ DeletedHistory(s),
             !.total = Some(Rowcount(Cardinality(DeletedHistory(s))))]}

\* delete_latest_sql
DeleteLatest(s) ==
  {[s EXCEPT !.db.latest =
      {ell \in @ : ~ \E d \in s.tmp_rows : d.delete_latest_id = Some(ell.signal_data_id)}]}

\* A faulty variant of GroupRow: MIN(h.issue).
GroupRowMinIssue(group, any) ==
  [signal_data_id |-> any.signal_data_id, signal_key_id |-> any.signal_key_id,
   geo_key_id |-> any.geo_key_id, time_type |-> any.time_type,
   time_value |-> any.time_value, issue |-> Min({h.issue : h \in group}),
   value |-> any.value]

\* The row update_latest_sql selects for one GROUP BY group: MAX(h.issue), and
\* the other columns as one row `any` of the group has them.
GroupRow(group, any) ==
  [signal_data_id |-> any.signal_data_id, signal_key_id |-> any.signal_key_id,
   geo_key_id |-> any.geo_key_id, time_type |-> any.time_type,
   time_value |-> any.time_value, issue |-> Max({h.issue : h \in group}),
   value |-> any.value]

\* The row sets update_latest_sql can select: history_view JOIN tmp USING
\* (short_comp_key) WHERE update_latest = 1 GROUP BY short_comp_key.
UpdateLatestRows(s) ==
  LET hv == history_view(s.db)
      joined == {h \in hv : \E d \in s.tmp_rows :
                   d.update_latest = 1 /\ ShortCompKey(d) = ShortCompKey(h)}
      keys == {ShortCompKey(h) : h \in joined}
      Group(k) == {h \in joined : ShortCompKey(h) = k}
  IN {{GroupRow(Group(k), any[k]) : k \in keys} :
        any \in {f \in [keys -> joined] : \A k \in keys : f[k] \in Group(k)}}

\* A plain INSERT fails on a row that repeats a primary or unique key.
KeyCollision(table, rows) ==
  \E r \in rows : \E t \in (table \cup rows) \ {r} :
     LatestKey(t) = LatestKey(r) \/ t.signal_data_id = r.signal_data_id

\* update_latest_sql
UpdateLatest(s) ==
  {IF KeyCollision(s.db.latest, rows) THEN Raise(s, "update_latest")
   ELSE [s EXCEPT !.db.latest = @ \cup rows] : rows \in UpdateLatestRows(s)}

\* if total == -1: total = None
UnsupportedRowcount(s) == {[s EXCEPT !.total = IF @ = Some(-1) THEN None ELSE @]}

\* A faulty variant of DropTmpTable: the drop is the last statement of the
\* try block, which a raise skips.
DropTmpTableInTry(Ss, fail_step) ==
  UNION {IF s.raised THEN {s}
         ELSE IF fail_step = "drop_tmp_table" THEN FailedDdl(s, "drop_tmp_table")
         ELSE {[ImplicitCommit(s) EXCEPT !.tmp_exists = FALSE, !.tmp_rows = {}]} :
         s \in Ss}

\* finally: drop_tmp_table_sql.  It runs whether or not the body raised, and
\* raises itself when the table is not there.
DropTmpTable(Ss, fail_step) ==
  UNION {IF fail_step = "drop_tmp_table" THEN FailedDdl(s, "drop_tmp_table")
         ELSE IF ~ s.tmp_exists THEN {Raise(s, "drop_tmp_table")}
         ELSE {[ImplicitCommit(s) EXCEPT !.tmp_exists = FALSE, !.tmp_rows = {}]} :
         s \in Ss}

\* The try block of delete_batch for a list of tuples.
DeleteBody(s, cc_deletions, fail_step) ==
  LET Load(x) == LoadTmpTable(x, cc_deletions)
      s0 == [s EXCEPT !.total = None]
      s1 == IF fail_step = "create_tmp_table" THEN FailedDdl(s0, fail_step)
            ELSE IF fail_step = "amend_tmp_table"
                 THEN UNION {FailedDdl(x, fail_step) : x \in CreateTmpTable(s0)}
            ELSE CreateTmpTable(s0)
      s2 == Execute(s1, "load_tmp_table", fail_step, Load)
      s3 == Execute(s2, "add_history_id", fail_step, AddHistoryId)
      s4 == Execute(s3, "mark_for_update_latest", fail_step, MarkForUpdateLatest)
      s5 == Execute(s4, "delete_history", fail_step, DeleteHistory)
      s6 == Execute(s5, "delete_latest", fail_step, DeleteLatest)
      s7 == Execute(s6, "update_latest", fail_step, UpdateLatest)
      s8 == ExecuteCommit(s7, fail_step)
  IN Execute(s8, "total", fail_step, UnsupportedRowcount)

\* delete_batch(cc_deletions) for a list of tuples: the sessions the call can
\* end in.
delete_batch(s, cc_deletions, fail_step) ==
  DropTmpTable(DeleteBody(s, cc_deletions, fail_step), fail_step)

\* delete_batch(cc_deletions) for an argument that is neither a file name nor
\* a list: the scratch table is created, the method raises, the table is dropped.
delete_batch_bad_argument(s) ==
  DropTmpTable({Raise(x, "cc_deletions") : x \in CreateTmpTable([s EXCEPT !.total = None])},
               "none")

\* ------------------------------------------------------------------ state
\* The call the connection is in: its arguments, the tables before it, and
\* what it gave back.  The caller takes the result before its next call.
Call(op, s, cc_rows, cc_deletions, batch_size, commit_partial) ==
  [op |-> op, outcome |-> IF s.raised THEN "raised" ELSE "returned",
   failed_at |-> s.failed_at,
   ret |-> IF s.raised THEN None ELSE s.total,
   cc_rows |-> cc_rows, cc_deletions |-> cc_deletions, batch_size |-> batch_size,
   commit_partial |-> commit_partial, merges |-> s.merges, staged |-> s.staged,
   pre |-> db, pre_committed |-> committed]

Idle ==
  [op |-> "idle", outcome |-> "returned", failed_at |-> "none", ret |-> None,
   cc_rows |-> <<>>,
   cc_deletions |-> <<>>, batch_size |-> 0, commit_partial |-> FALSE, merges |-> 0,
   staged |-> <<>>, pre |-> EmptyDb, pre_committed |-> EmptyDb]

\* No compute_covidcast_meta call is running.
MetaIdle ==
  /\ srcsigs = [queue |-> <<>>, unfinished_tasks |-> 0]
  /\ meta = <<>>
  /\ meta_lock = 0
  /\ threads = [n \in 1..MaxThreads |-> [pc |-> "unstarted", pair |-> <<>>, rows |-> <<>>]]
  /\ coord = [pc |-> "idle", n_threads |-> 0, started |-> 0, ret |-> <<>>]
  /\ taken = <<>>

\* No concurrent load is running.
RaceIdle(transactional) ==
  [transactional |-> transactional,
   loaders |-> [p \in 1..NumLoaders |->
                  [pc |-> "idle", cc_rows |-> <<>>, seen |-> {}, staged_ids |-> {},
                   dirty |-> FALSE, failed_at |-> "none"]]]

\* No metadata cache method has been called.
CacheIdle == [op |-> "idle", written |-> None, ret |-> None]

\* connect(): a fresh store, nothing staged, nothing merged.
Init ==
  /\ db = EmptyDb
  /\ committed = EmptyDb
  /\ ai = [load |-> 1, signal_dim |-> 1, geo_dim |-> 1]
  /\ tmp_exists = FALSE
  /\ last = Idle
  /\ MetaIdle
  /\ clock = 0
  /\ cache_call = CacheIdle
  /\ race = RaceIdle(TRUE)

Current == Session(db, committed, ai, tmp_exists)

Become(s) ==
  /\ s.ai.signal_dim <= MaxDimId + 1
  /\ s.ai.geo_dim <= MaxDimId + 1
  /\ db' = s.db
  /\ committed' = s.committed
  /\ ai' = s.ai
  /\ tmp_exists' = s.tmp_exists
  /\ UNCHANGED <<metaVars, cacheVars, race>>

\* The statements of insert_or_update_batch that can be the one to fail.
LoadFailures(cc_rows, batch_size, commit_partial) ==
  LET bs == IF batch_size = 0 THEN Len(cc_rows) ELSE batch_size
      num_batches == IF bs = 0 THEN 0 ELSE Ceil(Len(cc_rows), bs)
  IN {f \in [batch : 0..(num_batches - 1), step : LoadSteps] :
        f.step = "commit" => commit_partial}

\* A call of insert_or_update_batch that `fail` lets run or interrupts.
InsertOrUpdateBatchCall(cc_rows, batch_size, commit_partial, fail) ==
  /\ last = Idle
  /\ ai.load + Len(cc_rows) <= MaxId + 1
  /\ \E s \in insert_or_update_batch(Current, cc_rows, batch_size, commit_partial, fail) :
       /\ Become(s)
       /\ last' = Call("insert_or_update_batch", s, cc_rows, <<>>, batch_size,
                       commit_partial)

\* A call of delete_batch with a list of tuples.
DeleteBatchCall(cc_deletions, fail_step) ==
  /\ last = Idle
  /\ \E s \in delete_batch(Current, cc_deletions, fail_step) :
       /\ Become(s)
       /\ last' = Call("delete_batch", s, <<>>, cc_deletions, 0, FALSE)

\* insert_or_update_batch, every statement succeeding.
InsertOrUpdateBatch ==
  \E cc_rows \in CcRowsInputs, batch_size \in 0..MaxRows, commit_partial \in BOOLEAN :
    InsertOrUpdateBatchCall(cc_rows, batch_size, commit_partial, NoFail)

\* delete_batch, every statement succeeding.
DeleteBatch ==
  \E cc_deletions \in CcDeletionsInputs : DeleteBatchCall(cc_deletions, "none")

\* The caller has the result of its call and may call again.
Return ==
  /\ last # Idle
  /\ last' = Idle
  /\ UNCHANGED <<db, committed, ai, tmp_exists, metaVars, cacheVars, race>>

Next ==
  \/ InsertOrUpdateBatch
  \/ DeleteBatch
  \/ Return

Spec == Init /\ [][Next]_vars

\* -------------------------------------------------- statements that fail
\* The calls of the fault specification: one natural key, short inputs.
FaultCcRowsInputs ==
  {s \in CcRowsInputs : Len(s) <= FaultMaxRows /\ \A i \in 1..Len(s) : s[i].signal = 1}

FaultCcDeletionsInputs ==
  {s \in CcDeletionsInputs :
     Len(s) <= FaultMaxDeletions /\ \A i \in 1..Len(s) : s[i].signal = 1}

\* insert_or_update_batch, every statement succeeding or one of them raising.
InsertOrUpdateBatchMayFail ==
  \E cc_rows \in FaultCcRowsInputs, batch_size \in 0..FaultMaxRows,
     commit_partial \in BOOLEAN :
    \E fail \in {NoFail} \cup LoadFailures(cc_rows, batch_size, commit_partial) :
      InsertOrUpdateBatchCall(cc_rows, batch_size, commit_partial, fail)

\* delete_batch, every statement succeeding or one of them raising.
DeleteBatchMayFail ==
  \E cc_deletions \in FaultCcDeletionsInputs, fail_step \in DeleteSteps \cup {"none"} :
    DeleteBatchCall(cc_deletions, fail_step)

\* delete_batch with an argument that is neither a file name nor a list.
DeleteBatchBadArgument ==
  /\ last = Idle
  /\ \E s \in delete_batch_bad_argument(Current) :
       /\ Become(s)
       /\ last' = Call("delete_batch", s, <<>>, <<>>, 0, FALSE)

\* run_dbjobs called on its own, on whatever signal_load holds.
RunDbjobs ==
  /\ last = Idle
  /\ \E fail_step \in {"none", "signal_dim_add_new_load", "geo_dim_add_new_load",
                       "signal_history_load", "signal_latest_load",
                       "signal_load_delete_processed"} :
       \E s \in run_dbjobs({Current}, fail_step) :
         /\ Become(s)
         /\ last' = Call("run_dbjobs", s, <<>>, <<>>, 0, FALSE)

\* Database.commit
Commit ==
  /\ last = Idle
  /\ committed' = db
  /\ UNCHANGED <<db, ai, tmp_exists, last, metaVars, cacheVars, race>>

\* Database.rollback
Rollback ==
  /\ last = Idle
  /\ db' = committed
  /\ UNCHANGED <<committed, ai, tmp_exists, last, metaVars, cacheVars, race>>

NextFault ==
  \/ InsertOrUpdateBatchMayFail
  \/ DeleteBatchMayFail
  \/ DeleteBatchBadArgument
  \/ Commit
  \/ Rollback
  \/ Return

SpecFault == Init /\ [][NextFault]_vars

\* Loads that may stop half way, and run_dbjobs run again on what they left.
NextMerge ==
  \/ InsertOrUpdateBatchMayFail
  \/ RunDbjobs
  \/ Return

SpecMerge == Init /\ [][NextMerge]_vars

\* The statements of run_dbjobs.
MergeSteps ==
  {"signal_dim_add_new_load", "geo_dim_add_new_load", "signal_history_load",
   "signal_latest_load", "signal_load_delete_processed"}

\* run_dbjobs called on what a load left in signal_load when its merge
\* stopped; it may stop again and be called again.  The record keeps the
\* arguments of the stopped load and the tables before it.
ResumeRunDbjobs ==
  /\ last.op \in {"insert_or_update_batch", "resumed_run_dbjobs"}
  /\ last.outcome = "raised"
  /\ last.failed_at \in MergeSteps
  /\ \E fail_step \in MergeSteps \cup {"none"} :
       \E s \in run_dbjobs({Current}, fail_step) :
         /\ Become(s)
         /\ last' = [Call("resumed_run_dbjobs", s, last.cc_rows, <<>>,
                          last.batch_size, last.commit_partial)
                       EXCEPT !.pre = last.pre, !.pre_committed = last.pre_committed,
                              !.staged = last.staged]

NextResume ==
  \/ InsertOrUpdateBatchMayFail
  \/ ResumeRunDbjobs
  \/ Return

SpecResume == Init /\ [][NextResume]_vars

\* -------------------------------------------------- compute_covidcast_meta
\* The strings of the model in Python's (and the store's) ascending order.
StrOrder == <<"county", "day", "src">>

StrRank(x) == CHOOSE i \in DOMAIN StrOrder : StrOrder[i] = x

\* a < b for two tuples of numbers of one length, compared item by item.
TupleLess(a, b) ==
  \E i \in 1..Len(a) : a[i] < b[i] /\ \A j \in 1..(i - 1) : a[j] = b[j]

\* The sequences that list every element of S once, ascending by Key.
SortedSeqs(S, Key(_)) ==
  {q \in [1..Cardinality(S) -> S] :
     \A i, j \in DOMAIN q : i < j => TupleLess(Key(q[i]), Key(q[j]))}

PairKey(p) == <<StrRank(p[1]), p[2]>>

\* SELECT source, signal FROM latest_view GROUP BY source, signal
\* ORDER BY source ASC, signal ASC
SrcSigsQuery(d) ==
  CHOOSE q \in SortedSeqs({<<r.source, r.signal>> : r \in latest_view(d)}, PairKey) : TRUE

\* One row of inner_sql: the aggregates of one (time_type, geo_type) group.
MetaRow(group) ==
  LET any == CHOOSE r \in group : TRUE
  IN [data_source |-> any.source, signal |-> any.signal, time_type |-> any.time_type,
      geo_type |-> any.geo_type,
      min_time |-> Min({r.time_value : r \in group}),
      max_time |-> Max({r.time_value : r \in group}),
      num_locations |-> Cardinality({r.geo_value : r \in group}),
      min_value |-> Min({r.value : r \in group}),
      max_value |-> Max({r.value : r \in group}),
      max_issue |-> Max({r.issue : r \in group})]

GroupKey(x) == <<StrRank(x.time_type), StrRank(x.geo_type)>>

\* inner_sql for one (source, signal): GROUP BY time_type, geo_type
\* ORDER BY time_type ASC, geo_type ASC
InnerSql(d, pair) ==
  LET rows == {r \in latest_view(d) : r.source = pair[1] /\ r.signal = pair[2]}
      Group(r) == {x \in rows : x.time_type = r.time_type /\ x.geo_type = r.geo_type}
  IN CHOOSE q \in SortedSeqs({MetaRow(Group(r)) : r \in rows}, GroupKey) : TRUE

\* sorting_fields = "data_source signal time_type geo_type"
SortableFields(x) ==
  <<StrRank(x.data_source), x.signal, StrRank(x.time_type), StrRank(x.geo_type)>>

\* list.sort() of the tuple representation, as an insertion sort: x goes
\* before the first element that is greater, so equal elements keep their
\* order.
RECURSIVE InsertSorted(_, _)
InsertSorted(x, lst) ==
  IF lst = <<>> THEN <<x>>
  ELSE IF TupleLess(SortableFields(x), SortableFields(Head(lst))) THEN <<x>> \o lst
  ELSE <<Head(lst)>> \o InsertSorted(x, Tail(lst))

SortMetaAsAppended(lst) == lst

RECURSIVE SortMeta(_)
SortMeta(lst) ==
  IF lst = <<>> THEN <<>>
  ELSE InsertSorted(lst[Len(lst)], SortMeta(SubSeq(lst, 1, Len(lst) - 1)))

GetNowaitPeek(queue) == queue

\* Queue.get_nowait(): what is left in the queue.
GetNowait(queue) == Tail(queue)

\* compute_covidcast_meta is called: n_threads is fixed (cpu_count is the
\* machine's), the pairs of the Latest view are put into the queue.
ComputeCovidcastMeta ==
  /\ coord.pc = "idle"
  /\ last = Idle
  /\ \E n_threads \in 1..MaxThreads :
       coord' = [pc |-> "start", n_threads |-> n_threads, started |-> 0, ret |-> <<>>]
  /\ srcsigs' = [queue |-> SrcSigsQuery(db), unfinished_tasks |-> Len(SrcSigsQuery(db))]
  /\ meta' = <<>>
  /\ UNCHANGED <<cacheVars, race, db, committed, ai, tmp_exists, last, meta_lock, threads, taken>>

\* t.start() for the next thread of the loop; after the last one the caller
\* goes on to srcsigs.join().
StartThread ==
  /\ coord.pc = "start"
  /\ threads' = [threads EXCEPT ![coord.started + 1].pc = "get"]
  /\ coord' = [coord EXCEPT !.started = @ + 1,
                            !.pc = IF coord.started + 1 = coord.n_threads
                                   THEN "join_queue" ELSE "start"]
  /\ UNCHANGED <<cacheVars, race, db, committed, ai, tmp_exists, last, srcsigs, meta, meta_lock, taken>>

\* worker: srcsigs.get_nowait(); Empty ends the thread.
WorkerGet(n) ==
  /\ threads[n].pc = "get"
  /\ IF srcsigs.queue = <<>>
     THEN /\ threads' = [threads EXCEPT ![n].pc = "terminated"]
          /\ UNCHANGED <<srcsigs, taken>>
     ELSE /\ threads' = [threads EXCEPT ![n].pc = "execute",
                                        ![n].pair = Head(srcsigs.queue)]
          /\ srcsigs' = [srcsigs EXCEPT !.queue = GetNowait(@)]
          /\ taken' = Append(taken, <<n, Head(srcsigs.queue)>>)
  /\ UNCHANGED <<cacheVars, race, db, committed, ai, tmp_exists, last, meta, meta_lock, coord>>

\* worker: w_cursor.execute(inner_sql, (source, signal)), on the worker's own
\* connection, which sees what is committed.
WorkerExecute(n) ==
  /\ threads[n].pc = "execute"
  /\ threads' = [threads EXCEPT ![n].pc = "lock",
                                ![n].rows = InnerSql(committed, threads[n].pair)]
  /\ UNCHANGED <<cacheVars, race, db, committed, ai, tmp_exists, last, srcsigs, meta, meta_lock, coord, taken>>

\* worker: with meta_lock, entered
WorkerLock(n) ==
  /\ threads[n].pc = "lock"
  /\ meta_lock = 0
  /\ meta_lock' = n
  /\ threads' = [threads EXCEPT ![n].pc = "extend"]
  /\ UNCHANGED <<cacheVars, race, db, committed, ai, tmp_exists, last, srcsigs, meta, coord, taken>>

\* worker: meta.extend(rows), and the with block is left
WorkerExtend(n) ==
  /\ threads[n].pc = "extend"
  /\ meta' = meta \o threads[n].rows
  /\ meta_lock' = 0
  /\ threads' = [threads EXCEPT ![n].pc = "task_done"]
  /\ UNCHANGED <<cacheVars, race, db, committed, ai, tmp_exists, last, srcsigs, coord, taken>>

WorkerTaskDoneUncounted(n) ==
  /\ threads[n].pc = "task_done"
  /\ threads' = [threads EXCEPT ![n].pc = "get", ![n].pair = <<>>, ![n].rows = <<>>]
  /\ UNCHANGED <<cacheVars, race, db, committed, ai, tmp_exists, last, srcsigs, meta, meta_lock,
                 coord, taken>>

\* worker: srcsigs.task_done(), and the loop starts again. Called more often
\* than tasks were put, task_done raises ValueError, which ends the thread.
WorkerTaskDone(n) ==
  /\ threads[n].pc = "task_done"
  /\ IF srcsigs.unfinished_tasks = 0
     THEN /\ threads' = [threads EXCEPT ![n].pc = "terminated"]
          /\ UNCHANGED srcsigs
     ELSE /\ srcsigs' = [srcsigs EXCEPT !.unfinished_tasks = @ - 1]
          /\ threads' = [threads EXCEPT ![n].pc = "get", ![n].pair = <<>>, ![n].rows = <<>>]
  /\ UNCHANGED <<cacheVars, race, db, committed, ai, tmp_exists, last, meta, meta_lock, coord, taken>>

\* One step of the worker thread n.
WorkerStep(n) ==
  \/ WorkerGet(n)
  \/ WorkerExecute(n)
  \/ WorkerLock(n)
  \/ WorkerExtend(n)
  \/ WorkerTaskDone(n)

Worker == \E n \in 1..MaxThreads : WorkerStep(n)

\* srcsigs.join() returns when every task put has been marked done.
JoinQueue ==
  /\ coord.pc = "join_queue"
  /\ srcsigs.unfinished_tasks = 0
  /\ coord' = [coord EXCEPT !.pc = "join_threads"]
  /\ UNCHANGED <<cacheVars, race, db, committed, ai, tmp_exists, last, srcsigs, meta, meta_lock, threads, taken>>

\* for t in threads: t.join(); a thread that ended by an exception has ended
\* too.
JoinThreads ==
  /\ coord.pc = "join_threads"
  /\ \A n \in 1..coord.n_threads : threads[n].pc \in {"terminated", "failed"}
  /\ coord' = [coord EXCEPT !.pc = "sort"]
  /\ UNCHANGED <<cacheVars, race, db, committed, ai, tmp_exists, last, srcsigs, meta, meta_lock, threads, taken>>

\* The metadata is sorted and returned.
SortAndReturn ==
  /\ coord.pc = "sort"
  /\ coord' = [coord EXCEPT !.pc = "done", !.ret = SortMeta(meta)]
  /\ UNCHANGED <<cacheVars, race, db, committed, ai, tmp_exists, last, srcsigs, meta, meta_lock, threads, taken>>

\* The stores compute_covidcast_meta is run on: what one load of at most
\* MetaMaxRows rows leaves, committed.
InitMeta ==
  /\ \E cc_rows \in {c \in CcRowsInputs : Len(c) <= MetaMaxRows} :
       \E s \in insert_or_update_batch(Session(EmptyDb, EmptyDb,
                                                [load |-> 1, signal_dim |-> 1, geo_dim |-> 1],
                                                FALSE),
                                        cc_rows, 0, FALSE, NoFail) :
         /\ db = s.db
         /\ committed = s.db
         /\ ai = s.ai
  /\ tmp_exists = FALSE
  /\ last = Idle
  /\ MetaIdle
  /\ clock = 0
  /\ cache_call = CacheIdle
  /\ race = RaceIdle(TRUE)

NextMeta ==
  \/ ComputeCovidcastMeta
  \/ StartThread
  \/ Worker
  \/ JoinQueue
  \/ JoinThreads
  \/ SortAndReturn

SpecMeta == InitMeta /\ [][NextMeta]_vars

\* The caller's thread: the steps of compute_covidcast_meta itself.
Coordinator ==
  \/ StartThread
  \/ JoinQueue
  \/ JoinThreads
  \/ SortAndReturn

\* Every thread that can take a step is scheduled in the end: the caller's,
\* and each worker's.
MetaFairness ==
  /\ WF_vars(Coordinator)
  /\ \A n \in 1..MaxThreads : WF_vars(WorkerStep(n))

SpecMetaLive == SpecMeta /\ MetaFairness

WorkerExecuteFailsTaskDone(n) ==
  /\ threads[n].pc = "execute"
  /\ threads' = [threads EXCEPT ![n].pc = "failed"]
  /\ srcsigs' = [srcsigs EXCEPT !.unfinished_tasks = @ - 1]
  /\ UNCHANGED <<cacheVars, race, db, committed, ai, tmp_exists, last, meta, meta_lock,
                 coord, taken>>

\* worker: w_cursor.execute raises. The exception is not Empty: the finally
\* clause disconnects and the exception ends the thread; task_done is not
\* called for the pair, and nothing is handed to the caller's thread.
WorkerExecuteFails(n) ==
  /\ threads[n].pc = "execute"
  /\ threads' = [threads EXCEPT ![n].pc = "failed"]
  /\ UNCHANGED <<cacheVars, race, db, committed, ai, tmp_exists, last, srcsigs, meta, meta_lock,
                 coord, taken>>

\* compute_covidcast_meta with queries that may fail.
NextMetaFault ==
  \/ NextMeta
  \/ \E n \in 1..MaxThreads : WorkerExecuteFails(n)

SpecMetaFault == InitMeta /\ [][NextMetaFault]_vars

\* A thread whose query is about to fail is scheduled like any other.
SpecMetaFaultLive ==
  /\ SpecMetaFault
  /\ WF_vars(Coordinator)
  /\ \A n \in 1..MaxThreads : WF_vars(WorkerStep(n) \/ WorkerExecuteFails(n))

\* ------------------------------------------------------- the metadata cache
\* The columns of a summary row, in the order of inner_sql; the order of the
\* members of the JSON object json.dumps writes for it.
MetaFields ==
  <<"data_source", "signal", "time_type", "geo_type", "min_time", "max_time",
    "num_locations", "min_value", "max_value", "max_issue">>

\* json.dumps(metadata): the text of a list of objects, each object the
\* (name, value) members of one entry.
JsonDumps(metadata) ==
  [i \in 1..Len(metadata) |->
     [j \in 1..Len(MetaFields) |-> <<MetaFields[j], metadata[i][MetaFields[j]]>>]]

\* json.loads(text): the list of dicts; a name that occurs twice in an object
\* keeps its last value.
JsonLoads(text) ==
  [i \in 1..Len(text) |->
     [name \in {text[i][j][1] : j \in 1..Len(text[i])} |->
        LET j == Max({m \in 1..Len(text[i]) : text[i][m][1] = name})
        IN text[i][j][2]]]

UpdateFirstRowOnly(table, now, epidata_json) ==
  [i \in 1..Len(table) |->
     IF i = 1 THEN [timestamp |-> now, epidata |-> epidata_json] ELSE table[i]]

\* UPDATE covidcast_meta_cache SET timestamp = UNIX_TIMESTAMP(NOW()),
\* epidata = %s: no WHERE clause, every row of the table is rewritten.
UpdateMetaCacheSql(table, now, epidata_json) ==
  [i \in 1..Len(table) |-> [timestamp |-> now, epidata |-> epidata_json]]

\* SELECT epidata FROM covidcast_meta_cache ORDER BY timestamp DESC LIMIT 1:
\* the epidata a row of the greatest timestamp holds; of several such rows,
\* any.
SelectNewestEpidata(table) ==
  {table[i].epidata : i \in {m \in 1..Len(table) :
                               \A n \in 1..Len(table) : table[n].timestamp <= table[m].timestamp}}

CacheKey(entry) ==
  <<entry.data_source, entry.signal, entry.time_type, entry.geo_type>>

\* cache_hash: the loop assigns the entries in order, so of two entries of
\* one key the later stays.
CacheHash(cache) ==
  [k \in {CacheKey(cache[i]) : i \in 1..Len(cache)} |->
     cache[Max({i \in 1..Len(cache) : CacheKey(cache[i]) = k})]]

\* The metadata lists written: summary rows as compute_covidcast_meta gives
\* them, also lists with two entries of one key.
CacheMetaInputs ==
  SeqsUpTo([data_source : {"src"}, signal : 1..NumSignals, time_type : {"day"},
            geo_type : {"county"}, min_time : {20200101}, max_time : {20200101},
            num_locations : {1}, min_value : Values, max_value : Values,
            max_issue : Issues],
           MaxEntries)

\* Database.update_covidcast_meta_cache
UpdateCovidcastMetaCache ==
  /\ last = Idle
  /\ \E metadata \in CacheMetaInputs :
       /\ db' = [db EXCEPT !.meta_cache = UpdateMetaCacheSql(@, clock, JsonDumps(metadata))]
       /\ cache_call' = [op |-> "update_covidcast_meta_cache", written |-> Some(metadata),
                         ret |-> None]
  /\ UNCHANGED <<committed, ai, tmp_exists, last, metaVars, clock, race>>

\* Database.retrieve_covidcast_meta_cache
RetrieveCovidcastMetaCache ==
  /\ last = Idle
  /\ \E cache_json \in SelectNewestEpidata(db.meta_cache) :
       cache_call' = [cache_call EXCEPT !.op = "retrieve_covidcast_meta_cache",
                                        !.ret = Some(CacheHash(JsonLoads(cache_json)))]
  /\ UNCHANGED <<db, committed, ai, tmp_exists, last, metaVars, clock, race>>

\* A second passes on the server.
Tick ==
  /\ clock < MaxClock
  /\ clock' = clock + 1
  /\ UNCHANGED <<db, committed, ai, tmp_exists, last, metaVars, cache_call, race>>

\* The cache tables the methods are run on: one to MaxCacheRows rows, written
\* at or before the current second.
InitCache ==
  /\ clock \in 0..(MaxClock - 1)
  /\ \E table \in SeqsUpTo([timestamp : 0..clock,
                              epidata : {JsonDumps(m) : m \in {c \in CacheMetaInputs : Len(c) <= 1}}],
                             MaxCacheRows) :
       /\ table # <<>>
       /\ db = [EmptyDb EXCEPT !.meta_cache = table]
  /\ committed = db
  /\ ai = [load |-> 1, signal_dim |-> 1, geo_dim |-> 1]
  /\ tmp_exists = FALSE
  /\ last = Idle
  /\ MetaIdle
  /\ cache_call = CacheIdle
  /\ race = RaceIdle(TRUE)

NextCache ==
  \/ UpdateCovidcastMetaCache
  \/ RetrieveCovidcastMetaCache
  \/ Tick

SpecCache == InitCache /\ [][NextCache]_vars

\* -------------------------------------------------------- concurrent loads
Others(p) == (1..NumLoaders) \ {p}

\* The ids of the signal_load rows call p has inserted in a transaction that
\* is still open.
UncommittedOf(p) ==
  IF race.transactional /\ race.loaders[p].dirty THEN race.loaders[p].staged_ids ELSE {}

\* The signal_load rows a plain SELECT of call p reads: not the rows another
\* connection has inserted and not committed.
VisibleLoad(p) ==
  {r \in db.load : \A q \in Others(p) : r.signal_data_id \notin UncommittedOf(q)}

\* A statement of call p that locks the rows it reads waits while another
\* connection holds uncommitted changes.
Blocked(p) == race.transactional /\ \E q \in Others(p) : race.loaders[q].dirty

\* What is committed once one more statement has run: with an engine without
\* transactions, everything.
CommittedAfter(d) == IF race.transactional THEN committed ELSE d

\* The cc_rows of the concurrent calls.
RaceCcRowsInputs == {c \in CcRowsInputs : Len(c) = 1}

\* insert_or_update_batch is called: the empty-staging check.
LoaderCheck(p) ==
  /\ last = Idle
  /\ race.loaders[p].pc = "idle"
  /\ \E cc_rows \in RaceCcRowsInputs :
       LET seen == VisibleLoad(p)
           passes == 0 = count_all_load_rows([db EXCEPT !.load = seen])
       IN race' = [race EXCEPT !.loaders[p] =
                     [@ EXCEPT !.pc = IF passes THEN "insert" ELSE "raised",
                               !.cc_rows = cc_rows,
                               !.seen = seen,
                               !.failed_at = IF passes THEN "none"
                                             ELSE "count_all_load_rows"]]
  /\ UNCHANGED <<db, committed, ai, tmp_exists, last, metaVars, cacheVars>>

\* executemany(insert_into_loader_sql, args) of the one batch
LoaderInsert(p) ==
  /\ race.loaders[p].pc = "insert"
  /\ ai.load + Len(race.loaders[p].cc_rows) <= MaxId + 1
  /\ \E s \in InsertIntoLoader(Current, race.loaders[p].cc_rows) :
       /\ db' = s.db
       /\ ai' = s.ai
       /\ committed' = CommittedAfter(s.db)
  /\ race' = [race EXCEPT !.loaders[p] =
                [@ EXCEPT !.pc = "fix",
                          !.staged_ids = ai.load..(ai.load + Len(race.loaders[p].cc_rows) - 1),
                          !.dirty = race.transactional]]
  /\ UNCHANGED <<tmp_exists, last, metaVars, cacheVars>>

\* execute(fix_is_latest_issue_sql)
LoaderFix(p) ==
  /\ race.loaders[p].pc = "fix"
  /\ ~ Blocked(p)
  /\ \E s \in FixIsLatestIssue(Current) :
       /\ db' = s.db
       /\ committed' = CommittedAfter(s.db)
  /\ race' = [race EXCEPT !.loaders[p].pc = "merge"]
  /\ UNCHANGED <<ai, tmp_exists, last, metaVars, cacheVars>>

\* run_dbjobs(), and the call returns
LoaderMerge(p) ==
  /\ race.loaders[p].pc = "merge"
  /\ ~ Blocked(p)
  /\ \E s \in run_dbjobs({Current}, "none") :
       /\ s.ai.signal_dim <= MaxDimId + 1
       /\ s.ai.geo_dim <= MaxDimId + 1
       /\ db' = s.db
       /\ ai' = s.ai
       /\ committed' = CommittedAfter(s.db)
  /\ race' = [race EXCEPT !.loaders[p].pc = "returned"]
  /\ UNCHANGED <<tmp_exists, last, metaVars, cacheVars>>

\* The statement call p waits in gives up (lock wait timeout, deadlock): the
\* except clause raises it again.
LoaderLockWaitTimeout(p) ==
  /\ race.loaders[p].pc \in {"fix", "merge"}
  /\ Blocked(p)
  /\ race' = [race EXCEPT !.loaders[p].pc = "raised",
                          !.loaders[p].failed_at = race.loaders[p].pc]
  /\ UNCHANGED <<db, committed, ai, tmp_exists, last, metaVars, cacheVars>>

\* The caller of a call that returned commits (disconnect(True)).
LoaderCommit(p) ==
  /\ race.loaders[p].pc = "returned"
  /\ committed' = [db EXCEPT !.load =
                     {r \in @ : \A q \in Others(p) : r.signal_data_id \notin UncommittedOf(q)}]
  /\ race' = [race EXCEPT !.loaders[p].pc = "closed", !.loaders[p].dirty = FALSE]
  /\ UNCHANGED <<db, ai, tmp_exists, last, metaVars, cacheVars>>

\* The caller of a call that raised closes the connection without a commit
\* (disconnect(False)): what the call staged and did not commit is gone.
LoaderRollback(p) ==
  /\ race.loaders[p].pc = "raised"
  /\ db' = [db EXCEPT !.load = {r \in @ : r.signal_data_id \notin UncommittedOf(p)}]
  /\ race' = [race EXCEPT !.loaders[p].pc = "closed", !.loaders[p].dirty = FALSE]
  /\ UNCHANGED <<committed, ai, tmp_exists, last, metaVars, cacheVars>>

Loader ==
  \E p \in 1..NumLoaders :
    \/ LoaderCheck(p)
    \/ LoaderInsert(p)
    \/ LoaderFix(p)
    \/ LoaderMerge(p)
    \/ LoaderLockWaitTimeout(p)
    \/ LoaderCommit(p)
    \/ LoaderRollback(p)

\* A fresh store on an engine with or without transactions.
InitRace ==
  /\ db = EmptyDb
  /\ committed = EmptyDb
  /\ ai = [load |-> 1, signal_dim |-> 1, geo_dim |-> 1]
  /\ tmp_exists = FALSE
  /\ last = Idle
  /\ MetaIdle
  /\ clock = 0
  /\ cache_call = CacheIdle
  /\ \E transactional \in BOOLEAN : race = RaceIdle(transactional)

NextRace == Loader

SpecRace == InitRace /\ [][NextRace]_vars

\* ----------------------------------------------------------------- claims
\* The History and the Latest rows of natural key k, as the views show them.
HistoryOf(d, k) == {h \in history_view(d) : ShortCompKey(h) = k}

LatestOf(d, k) == {ell \in latest_view(d) : ShortCompKey(ell) = k}

\* Natural key k has one Latest row, of the greatest issue History holds for
\* k; or it has neither.
LatestIsMaxIssue(d, k) ==
  IF HistoryOf(d, k) = {} THEN LatestOf(d, k) = {}
  ELSE /\ Cardinality(LatestOf(d, k)) = 1
       /\ \A ell \in LatestOf(d, k) : ell.issue = Max({h.issue : h \in HistoryOf(d, k)})

Returned(op) == last.op = op /\ last.outcome = "returned"

\* The full keys a deletion list asks for, and the versions a store holds.
Requested(cc_deletions) == {LongCompKey(cc_deletions[i]) : i \in 1..Len(cc_deletions)}

Versions(rows) == {LongCompKey(r) : r \in rows}

\* C1: after any sequence of successful loads and deletions, every natural
\* key with a History row has exactly one Latest row, whose issue is the
\* greatest issue among the key's History rows, and a natural key without a
\* History row has no Latest row.
C1_LatestMirrorsHistory == \A k \in NaturalKeys : LatestIsMaxIssue(db, k)

\* C2: when one batch holds two versions of natural key K, then after the
\* merge the Latest row of K has the greater issue, wherever the two stand in
\* the input.  (Stated for a call of one batch, on a key whose Latest row, if
\* any, is not newer than the batch.)
C2_SameBatchGreaterIssueWins ==
  (Returned("insert_or_update_batch") /\ Len(last.staged) = 1) =>
    \A i, j \in 1..Len(last.cc_rows) :
      LET older == last.cc_rows[i]
          newer == last.cc_rows[j]
          k == ShortCompKey(newer)
      IN (/\ ShortCompKey(older) = k
          /\ older.issue < newer.issue
          /\ \A n \in 1..Len(last.cc_rows) :
               ShortCompKey(last.cc_rows[n]) = k => last.cc_rows[n].issue <= newer.issue
          /\ \A ell \in LatestOf(last.pre, k) : ell.issue <= newer.issue)
         => (/\ LatestOf(db, k) # {}
             /\ \A ell \in LatestOf(db, k) : ell.issue = newer.issue)

\* C3: when delete_batch removes the version that is the Latest row of
\* natural key K, then after the call the Latest row of K is the remaining
\* History version of K with the greatest issue, and if no History row of K
\* remains K has no Latest row.
C3_DeletedLatestIsRecomputed ==
  Returned("delete_batch") =>
    \A i \in 1..Len(last.cc_deletions) :
      LET q == last.cc_deletions[i]
      IN LongCompKey(q) \in Versions(latest_view(last.pre))
           => LatestIsMaxIssue(db, ShortCompKey(q))

\* A deletion of the Latest version of a key that leaves two older versions.
C3_Witness ==
  /\ Returned("delete_batch")
  /\ \E i \in 1..Len(last.cc_deletions) :
       LET q == last.cc_deletions[i]
       IN /\ LongCompKey(q) \in Versions(latest_view(last.pre))
          /\ Cardinality(HistoryOf(db, ShortCompKey(q))) = 2
          /\ LatestOf(db, ShortCompKey(q)) # {}

\* C4: a single request for an existing version of K that is not K's Latest
\* version leaves the Latest table as it was, row for row and field for
\* field, and History one row shorter.
C4_NonLatestDeletionKeepsLatest ==
  (/\ Returned("delete_batch")
   /\ Len(last.cc_deletions) = 1
   /\ LongCompKey(last.cc_deletions[1]) \in Versions(history_view(last.pre))
   /\ LongCompKey(last.cc_deletions[1]) \notin Versions(latest_view(last.pre)))
  => (/\ db.latest = last.pre.latest
      /\ Cardinality(db.history) = Cardinality(last.pre.history) - 1)

\* Such a deletion, of a key that has a Latest row.
C4_Witness ==
  /\ Returned("delete_batch")
  /\ Len(last.cc_deletions) = 1
  /\ LongCompKey(last.cc_deletions[1]) \in Versions(history_view(last.pre))
  /\ LongCompKey(last.cc_deletions[1]) \notin Versions(latest_view(last.pre))
  /\ LatestOf(last.pre, ShortCompKey(last.cc_deletions[1])) # {}
  /\ Cardinality(db.latest) = 2

\* C5: a call whose requests match no History row is a no-op: it returns
\* zero and leaves History and Latest as they were.
C5_AbsentVersionIsNoOp ==
  (/\ Returned("delete_batch")
   /\ Len(last.cc_deletions) >= 1
   /\ Requested(last.cc_deletions) \cap Versions(history_view(last.pre)) = {})
  => (/\ last.ret = Some(0)
      /\ db.history = last.pre.history
      /\ db.latest = last.pre.latest)

\* C6: a delete_batch that fails at any step leaves the committed History and
\* Latest as they were before the call.  (Stated for a call that starts with
\* nothing uncommitted, so that what is committed is the call's own work.)
C6_FailedDeleteLeavesNothing ==
  (/\ last.op = "delete_batch"
   /\ last.outcome = "raised"
   /\ last.failed_at \in {"load_tmp_table", "add_history_id", "mark_for_update_latest",
                          "delete_history", "delete_latest", "update_latest", "commit"}
   /\ last.pre = last.pre_committed)
  => (/\ committed.history = last.pre_committed.history
      /\ committed.latest = last.pre_committed.latest)

\* C7: insert_or_update_batch called on a staging area that holds a row raises
\* before any work: nothing is staged, no merge runs, and the staging area,
\* the dimension registry, History and Latest are as they were.
C7_NonEmptyStagingIsFatal ==
  (last.op = "insert_or_update_batch" /\ last.pre.load # {})
  => (/\ last.outcome = "raised"
      /\ last.staged = <<>>
      /\ last.merges = 0
      /\ db = last.pre
      /\ committed = last.pre_committed)

\* A load attempted, with rows to stage, while the staging area holds rows.
C7_Witness ==
  /\ last.op = "insert_or_update_batch"
  /\ last.pre.load # {}
  /\ Len(last.cc_rows) >= 1
  /\ last.outcome = "raised"

\* C8: after every successful run_dbjobs, called on its own or by
\* insert_or_update_batch, and so after every successful
\* insert_or_update_batch, the staging area holds no row: the next load
\* passes the empty-staging precondition.
C8_StagingEmptyAfterMerge ==
  (Returned("run_dbjobs") \/ Returned("insert_or_update_batch"))
  => (db.load = {} /\ count_all_load_rows(db) = 0)

\* A successful run_dbjobs on a staging area left by a load that stopped,
\* holding a row that had lost its flag.
C8_Witness ==
  /\ Returned("run_dbjobs")
  /\ \E r \in last.pre.load : r.is_latest_issue = 0
  /\ db.load = {}

\* The concatenation of a sequence of sequences.
RECURSIVE Flatten(_)
Flatten(ss) == IF ss = <<>> THEN <<>> ELSE Head(ss) \o Flatten(Tail(ss))

\* C9: with n rows and batch size b >= 1 the call stages consecutive batches
\* of at most b rows, every input row in exactly one of them, runs the merge
\* ceil(n/b) times, once per batch, and returns n.
C9_BatchesPartitionInput ==
  (Returned("insert_or_update_batch") /\ last.batch_size >= 1) =>
    LET n == Len(last.cc_rows)
        b == last.batch_size
    IN /\ Flatten(last.staged) = last.cc_rows
       /\ \A k \in 1..Len(last.staged) : Len(last.staged[k]) \in 1..b
       /\ last.merges = Len(last.staged)
       /\ last.merges * b >= n
       /\ (last.merges - 1) * b < n \/ (n = 0 /\ last.merges = 0)
       /\ last.ret = Some(n)

\* Three rows in batches of two: a full batch and a short one.
C9_Witness ==
  /\ Returned("insert_or_update_batch")
  /\ Len(last.cc_rows) = 3
  /\ last.batch_size = 2
  /\ last.merges = 2
  /\ last.ret = Some(3)

\* C10: delete_batch returns the number of History rows it deleted: a version
\* requested more than once counts once, a request that matches no History
\* row counts for nothing.
C10_ReturnsRowsDeleted ==
  Returned("delete_batch") =>
    /\ db.history \subseteq last.pre.history
    /\ last.ret = Some(Cardinality(last.pre.history \ db.history))
    /\ last.ret = Some(Cardinality(Requested(last.cc_deletions)
                                     \cap Versions(history_view(last.pre))))

\* One version requested twice: two tuples, one History row deleted.
C10_Witness ==
  /\ Returned("delete_batch")
  /\ Len(last.cc_deletions) = 2
  /\ last.cc_deletions[1] = last.cc_deletions[2]
  /\ last.ret = Some(1)

C14_RerunOnEmptyStagingChangesNothing ==
  (Returned("run_dbjobs") /\ last.pre.load = {}) => db = last.pre

\* run_dbjobs run on an empty staging area after two versions of a key were
\* merged.
C14_Witness ==
  /\ Returned("run_dbjobs")
  /\ last.pre.load = {}
  /\ Cardinality(last.pre.history) >= 2
  /\ last.pre.latest # {}

\* C15: the row delete_batch reinserts into Latest for natural key K, after
\* it deleted K's Latest version, carries the fields (row id, value) of the
\* remaining History row of K with the greatest issue, not those of another
\* remaining version of K.  (Stated for a key whose Latest row was its
\* newest History version before the call.)
C15_RecomputedLatestCarriesMaxIssueFields ==
  Returned("delete_batch") =>
    \A i \in 1..Len(last.cc_deletions) :
      LET q == last.cc_deletions[i]
          k == ShortCompKey(q)
      IN (/\ LongCompKey(q) \in Versions(latest_view(last.pre))
          /\ LatestOf(last.pre, k) \subseteq HistoryOf(last.pre, k)
          /\ LatestIsMaxIssue(last.pre, k))
           => \A ell \in LatestOf(db, k) :
                \A h \in HistoryOf(db, k) :
                  h.issue = Max({g.issue : g \in HistoryOf(db, k)}) => ell = h

\* C16: in a call of one batch, a loaded version of natural key K older than
\* K's Latest row goes into History and, when every version of K in the batch
\* is older, leaves K's Latest row as it was; a loaded version not older than
\* K's Latest row, or of a key without a Latest row, becomes K's Latest row
\* (of several such versions of K in the batch, the one of the greatest issue).
C16_CorrectionPassDecidesLatest ==
  (Returned("insert_or_update_batch") /\ Len(last.staged) = 1) =>
    \A i \in 1..Len(last.cc_rows) :
      LET r == last.cc_rows[i]
          k == ShortCompKey(r)
          batch == {x \in Range(last.cc_rows) : ShortCompKey(x) = k}
          Stale(x) == \E ell \in LatestOf(last.pre, k) : x.issue < ell.issue
      IN /\ LongCompKey(r) \in Versions(history_view(db))
         /\ (\A x \in batch : Stale(x)) => LatestOf(db, k) = LatestOf(last.pre, k)
         /\ (~ Stale(r) /\ \A x \in batch : x.issue <= r.issue)
              => (/\ LatestOf(db, k) # {}
                  /\ \A ell \in LatestOf(db, k) : LongCompKey(ell) = LongCompKey(r))

SessionBeforeLoad ==
  Session(last.pre, last.pre_committed,
          [load |-> ai.load - Len(last.staged[1]),
           signal_dim |-> ai.signal_dim
                            - (Cardinality(db.signal_dim) - Cardinality(last.pre.signal_dim)),
           geo_dim |-> ai.geo_dim
                         - (Cardinality(db.geo_dim) - Cardinality(last.pre.geo_dim))],
          tmp_exists)

\* The tables one uninterrupted load of the staged batch can end with.
UninterruptedMerge ==
  {x.db : x \in {y \in insert_or_update_batch(SessionBeforeLoad, last.staged[1], 0,
                                               FALSE, NoFail) : ~ y.raised}}

\* C18: when the merge of a batch stopped at one of its statements, leaving
\* the batch in signal_load, and run_dbjobs is run again until it returns,
\* the dimension tables, History and Latest are what one uninterrupted merge
\* of the batch can give, with no repeated dimension entry or History key.
C18_StoppedMergeIsResumable ==
  (Returned("resumed_run_dbjobs") /\ Len(last.staged) = 1) =>
    /\ db \in UninterruptedMerge
    /\ \A a, b \in db.signal_dim : (a.source = b.source /\ a.signal = b.signal) => a = b
    /\ \A a, b \in db.geo_dim :
         (a.geo_type = b.geo_type /\ a.geo_value = b.geo_value) => a = b
    /\ \A a, b \in db.history : HistoryKey(a) = HistoryKey(b) => a = b

\* The merge of a batch of two rows that stopped and, run again, reached
\* its end.
C18_Witness ==
  /\ Returned("resumed_run_dbjobs")
  /\ Len(last.staged) = 1
  /\ Len(last.staged[1]) = 2
  /\ last.merges = 1
  /\ Cardinality(db.history) >= 2
  /\ db.load = {}

\* The summary rows of every (source, signal) pair of the Latest view of d.
MetaRowsOf(d) ==
  UNION {Range(InnerSql(d, <<r.source, r.signal>>)) : r \in latest_view(d)}

\* C11: for a fixed content of the Latest view, compute_covidcast_meta returns
\* the one sequence that lists every summary row of that content once, in
\* strictly ascending order of (source, signal, time_type, geo_type), whatever
\* the number of workers and whatever their interleaving.
C11_MetaSortedWhateverThePool ==
  coord.pc = "done" =>
    /\ Range(coord.ret) = MetaRowsOf(db)
    /\ Len(coord.ret) = Cardinality(MetaRowsOf(db))
    /\ \A i, j \in DOMAIN coord.ret :
         i < j => TupleLess(SortableFields(coord.ret[i]), SortableFields(coord.ret[j]))

\* Two workers appended their rows out of order, and the call returned.
C11_Witness ==
  /\ coord.pc = "done"
  /\ coord.n_threads = 2
  /\ Len(coord.ret) = 2
  /\ meta # coord.ret

\* The (source, signal) pairs workers have taken from the queue.
TakenPairs == {taken[i][2] : i \in DOMAIN taken}

\* C20: with no failing query, every pair put into the work queue is taken by
\* one worker once (never twice, and none is left once the queue is joined),
\* and once the queue is joined the shared list holds the rows of every pair's
\* grouped query exactly once.
C20_EveryPairOnceRowsOnce ==
  /\ \A i, j \in DOMAIN taken : i < j => taken[i][2] # taken[j][2]
  /\ coord.pc # "idle" =>
       /\ TakenPairs \cup Range(srcsigs.queue) = Range(SrcSigsQuery(db))
       /\ Len(taken) + Len(srcsigs.queue) = Len(SrcSigsQuery(db))
  /\ coord.pc \in {"join_threads", "sort", "done"} =>
       /\ TakenPairs = Range(SrcSigsQuery(db))
       /\ \A pair \in Range(SrcSigsQuery(db)) :
            LET at == {i \in DOMAIN meta : meta[i].data_source = pair[1]
                                           /\ meta[i].signal = pair[2]}
            IN /\ Cardinality(at) = Len(InnerSql(db, pair))
               /\ {meta[i] : i \in at} = Range(InnerSql(db, pair))

\* A run of two workers in which each took one of two pairs, and the queue
\* was joined.
C20_Witness ==
  /\ coord.pc = "join_threads"
  /\ Len(taken) = 2
  /\ taken[1][1] # taken[2][1]
  /\ Len(meta) = 2

C19_CheckOnlyDetects ==
  \A p \in 1..NumLoaders :
    LET ldr == race.loaders[p]
    IN ldr.pc # "idle" =>
         /\ (ldr.failed_at = "count_all_load_rows") <=> (ldr.seen # {})
         /\ ldr.failed_at = "count_all_load_rows" => ldr.staged_ids = {}
         /\ ldr.pc \in {"fix", "merge", "returned"} => ldr.seen = {}

\* Two concurrent calls that both read an empty staging area, both passed
\* the check and both inserted their rows into signal_load, neither having
\* merged.
C19_Witness ==
  /\ \A p \in 1..NumLoaders :
       /\ race.loaders[p].pc = "fix"
       /\ race.loaders[p].seen = {}
       /\ \E r \in db.load : r.signal_data_id \in race.loaders[p].staged_ids
  /\ Cardinality(db.load) = NumLoaders
  /\ db.history = {}

\* C21: when no query fails, a compute_covidcast_meta call that has started
\* returns in the end, whatever the number of pairs and of workers; and when
\* it goes on to sort and return the queue is empty, every pair put has been
\* marked done and every worker started has terminated.
C21_CoordinatorReturnsAfterDrain ==
  /\ [](coord.pc \in {"sort", "done"} =>
         /\ srcsigs.queue = <<>>
         /\ srcsigs.unfinished_tasks = 0
         /\ \A n \in 1..coord.n_threads : threads[n].pc = "terminated")
  /\ (coord.pc = "start" ~> coord.pc = "done")

\* A call with two workers and one pair that returned: the second worker
\* found the queue empty.
C21_Witness ==
  /\ coord.pc = "done"
  /\ coord.n_threads = 2
  /\ Len(taken) = 1
  /\ Len(coord.ret) = 1

\* C22: when the grouped query of a worker fails, the call of
\* compute_covidcast_meta ends as failed: the failure reaches the caller, and
\* no partial result is returned.
C22_WorkerFailureReachesCaller ==
  /\ [](coord.pc = "done" => \A n \in 1..MaxThreads : threads[n].pc # "failed")
  /\ ((\E n \in 1..MaxThreads : threads[n].pc = "failed") ~> coord.pc = "raised")

\* C23: once a worker has failed on a pair it took from the queue, the call
\* stays in srcsigs.join(): it does not go on to join the threads, sort or
\* return, also when every other worker has emptied the queue and terminated.
C23_FailedWorkerBlocksJoin ==
  (\E n \in 1..MaxThreads : threads[n].pc = "failed") =>
    /\ coord.pc \in {"start", "join_queue"}
    /\ srcsigs.unfinished_tasks >= 1

\* One of two workers failed on its pair; the other took the second pair,
\* emptied the queue and terminated; the caller is in srcsigs.join().
C23_Witness ==
  /\ coord.pc = "join_queue"
  /\ coord.n_threads = 2
  /\ srcsigs.queue = <<>>
  /\ Len(taken) = 2
  /\ \E n, m \in 1..MaxThreads : threads[n].pc = "failed" /\ threads[m].pc = "terminated"

\* The batches of the call `last` records that ended before the batch in
\* which the call raised.
BatchesBeforeFailure ==
  IF last.failed_at = "insert_into_loader" THEN last.staged
  ELSE SubSeq(last.staged, 1, Len(last.staged) - 1)

\* C24: with commit_partial, when insert_or_update_batch raises during a
\* batch, the exception reaches the caller (no value is returned) and every
\* earlier batch is committed: what is committed holds a History row, with
\* its dimension entries, for every row of those batches, carrying the row's
\* value, a Latest row for its natural key, and an empty staging area.
C24_EarlierBatchesStayCommitted ==
  (/\ last.op = "insert_or_update_batch"
   /\ last.commit_partial
   /\ last.failed_at \in LoadSteps)
  => /\ last.outcome = "raised"
     /\ last.ret = None
     /\ \A r \in Range(Flatten(BatchesBeforeFailure)) :
          /\ \E h \in history_view(committed) :
               LongCompKey(h) = LongCompKey(r) /\ h.value = r.value
          /\ LatestOf(committed, ShortCompKey(r)) # {}
     /\ BatchesBeforeFailure # <<>> => committed.load = {}

\* A call in batches of one row that raised in the merge of its second
\* batch: the first batch is committed, what the second did is not.
C24_Witness ==
  /\ last.op = "insert_or_update_batch"
  /\ last.commit_partial
  /\ last.outcome = "raised"
  /\ last.failed_at = "signal_latest_load"
  /\ Len(last.staged) = 2
  /\ Cardinality(committed.history) = 1
  /\ Cardinality(db.history) = 2
  /\ last.pre_committed.history = {}

\* The rows the merges of the call `last` records found in signal_load: those
\* left there before the call and those the call staged.
MergedLoadRows ==
  {[source |-> r.source, signal |-> r.signal, geo_type |-> r.geo_type,
    geo_value |-> r.geo_value] : r \in last.pre.load \cup Range(Flatten(last.staged))}

\* C25: the dimension tables are append-only and hold no (source, signal) and
\* no (geo_type, geo_value) pair twice, whatever merges were run one after the
\* other: a call keeps every entry that was there, with its key, and a call
\* that returned has added one entry for exactly the pairs of its staged rows
\* that had none.
C25_DimensionsAppendOnly ==
  /\ \A a, b \in db.signal_dim : (a.source = b.source /\ a.signal = b.signal) => a = b
  /\ \A a, b \in db.geo_dim :
       (a.geo_type = b.geo_type /\ a.geo_value = b.geo_value) => a = b
  /\ last.op \in {"insert_or_update_batch", "run_dbjobs"} =>
       /\ last.pre.signal_dim \subseteq db.signal_dim
       /\ last.pre.geo_dim \subseteq db.geo_dim
       /\ last.outcome = "returned" =>
            /\ {<<sd.source, sd.signal>> : sd \in db.signal_dim \ last.pre.signal_dim}
                 = {<<r.source, r.signal>> : r \in MergedLoadRows}
                     \ {<<sd.source, sd.signal>> : sd \in last.pre.signal_dim}
            /\ {<<gd.geo_type, gd.geo_value>> : gd \in db.geo_dim \ last.pre.geo_dim}
                 = {<<r.geo_type, r.geo_value>> : r \in MergedLoadRows}
                     \ {<<gd.geo_type, gd.geo_value>> : gd \in last.pre.geo_dim}

\* A load of a signal that is registered and of one that is not, at a
\* location that is registered.
C25_Witness ==
  /\ Returned("insert_or_update_batch")
  /\ Cardinality(last.pre.signal_dim) = 1
  /\ Cardinality(db.signal_dim) = 2
  /\ Cardinality(last.pre.geo_dim) = 1
  /\ db.geo_dim = last.pre.geo_dim
  /\ \E r \in Range(last.cc_rows) : \E sd \in last.pre.signal_dim : r.signal = sd.signal

\* C26: a write of update_covidcast_meta_cache keeps every row the cache
\* table held, with its timestamp and its epidata, and stores the new
\* snapshot in one more row.
C26_WriteKeepsEarlierSnapshots ==
  [][cache_call'.op = "update_covidcast_meta_cache" =>
       /\ Len(db'.meta_cache) = Len(db.meta_cache) + 1
       /\ \A i \in 1..Len(db.meta_cache) : db'.meta_cache[i] = db.meta_cache[i]
       /\ \A written \in cache_call'.written :
            db'.meta_cache[Len(db'.meta_cache)] =
              [timestamp |-> clock, epidata |-> JsonDumps(written)]]_vars

====
